---- MODULE Spec2Model ----
(***************************************************************************)
(* Process supervision and rule-test execution of the elastalert server.   *)
(*                                                                         *)
(*   ProcessController (src/unnamed/part_001): start / stop / onExit and   *)
(*   the 'exit' and 'error' listeners of the long-running ElastAlert child. *)
(*   TestController (src/unnamed/part_002): testRule and its listeners.    *)
(*                                                                         *)
(* Every handler of the code runs to completion on the single event-loop   *)
(* thread, so every handler is one atomic action.                          *)
(***************************************************************************)
EXTENDS Integers, Sequences, FiniteSets

(***************************************************************************)
(* Bounds of the model.                                                    *)
(***************************************************************************)
MaxProcs == 2
MaxCallbacks == 2
MaxSignals == 1
MaxChunks == 2
MaxChunkLen == 1

(***************************************************************************)
(* ProcessController: values.                                              *)
(***************************************************************************)
\* Status.IDLE, STARTING, READY, CLOSING, ERROR (common/status).
IDLE == "IDLE"
STARTING == "STARTING"
READY == "READY"
CLOSING == "CLOSING"
ERROR == "ERROR"
Statuses == {IDLE, STARTING, READY, CLOSING, ERROR}

\* this._process = null
NoProcess == 0
ProcIds == 1..MaxProcs

\* The `code` argument of the 'exit' listener: a number, or null when the
\* child was terminated by a signal.  NullCode stands for null.
NullCode == -1
ExitCodes == {0, 1, NullCode}

\* indexCreate.status of spawnSync: the pre-flight's exit code, or null.
PreflightCodes == {0, 1, NullCode}

\* Arguments onExit() can be given: two functions, null, and undefined
\* (onExit() called without an argument pushes undefined).
Functions == {"f", "g"}
CallbackArgs == Functions \cup {"null", "undefined"}

\* What the operating system holds for each child the supervisor spawned:
\*   "none"     not spawned yet
\*   "running"  a live process, its listeners attached
\*   "nospawn"  spawn() returned a ChildProcess but the process could not be
\*              started; its 'error' event is pending (emitted on next tick)
\*   "gone"     its 'exit' event (or its spawn 'error') has been delivered
ChildStates == {"none", "running", "nospawn", "gone"}

VARIABLES
  status,            \* this._status
  process,           \* this._process: NoProcess or the id of a child
  onExitCallbacks,   \* this._onExitCallbacks
  child,             \* the children spawned so far, by id
  nspawn,            \* number of spawn() calls made by start()
  npreflight,        \* number of spawnSync() pre-flight runs
  sigints,           \* SIGINTs delivered to each child
  calls,             \* callback invocations of the latest 'exit' event
  ninvoked,          \* callback invocations over the whole run
  crashed,           \* an exception escaped a listener (uncaught)
  last               \* the handler that ran last, and what it did in order

supVars == <<status, process, onExitCallbacks, child, nspawn, npreflight,
             sigints, calls, ninvoked, crashed, last>>

VARIABLES
  tpc,               \* where the testRule call is
  tOptions,          \* the options argument
  tSocket,           \* the socket argument: "none", "open" or "closed"
  tClose,            \* a 'close' listener is registered on the socket
  tChild,            \* the test process
  stdoutLines,       \* stdoutLines
  stderrLines,       \* stderrLines
  tSent,             \* what socket.send() was given, in order
  tInner,            \* the promise built by new Promise(...)
  tReturned,         \* the promise testRule returns: the former .catch(...)
  tFile,             \* the temporary file exists
  tDeletes,          \* deleteFile() calls made so far
  tPending,          \* deleteFile() calls not completed yet
  tArrived,          \* the chunks the child wrote, in arrival order
  tLast,             \* the listener that ran last
  tConfig,           \* what config.get() answers
  tProcessEnv,       \* process.env
  tArgs,             \* processOptions as given to spawn()
  tEnv,              \* env as given to spawn()
  tKills             \* testProcess.kill() calls made so far

\* What the job is given, and what it gives spawn().
jobInputs == <<tConfig, tProcessEnv>>
spawnCall == <<tArgs, tEnv>>

testVars == <<tpc, tOptions, tSocket, tClose, tChild, stdoutLines,
              stderrLines, tSent, tInner, tReturned, tFile, tDeletes,
              tPending, tArrived, tLast, jobInputs, spawnCall, tKills>>

vars == <<supVars, testVars>>

\* What a handler did: `trace` the values it assigned to this._status in
\* order, `effects` the external calls it made in order; `status`/`process`
\* are the values it found.
Did(op, arg, proc, trace, effects) ==
  [op |-> op, arg |-> arg, proc |-> proc, status |-> status,
   process |-> process, trace |-> trace, effects |-> effects]

(***************************************************************************)
(* ProcessController: constructor.                                         *)
(***************************************************************************)
SupInit ==
  /\ status = IDLE
  /\ process = NoProcess
  /\ onExitCallbacks = <<>>
  /\ child = [p \in ProcIds |-> "none"]
  /\ nspawn = 0
  /\ npreflight = 0
  /\ sigints = [p \in ProcIds |-> 0]
  /\ calls = <<>>
  /\ ninvoked = 0
  /\ crashed = FALSE
  /\ last = [op |-> "new", arg |-> 0, proc |-> NoProcess, status |-> IDLE,
             process |-> NoProcess, trace |-> <<>>, effects |-> <<>>]

(***************************************************************************)
(* onExit(onExitCallback)                                                  *)
(***************************************************************************)
OnExit ==
  /\ ~crashed
  /\ Len(onExitCallbacks) < MaxCallbacks
  /\ \E cb \in CallbackArgs :
       /\ onExitCallbacks' = Append(onExitCallbacks, cb)
       /\ last' = Did("onExit", 0, NoProcess, <<>>, <<>>)
  /\ UNCHANGED <<status, process, child, nspawn, npreflight, sigints, calls,
                 ninvoked, crashed>>
  /\ UNCHANGED testVars

(***************************************************************************)
(* start()                                                                 *)
(***************************************************************************)
\* The guard dropped: start() never takes the early return.
AlreadyRunningNever(proc, st) == FALSE

\* if (this._process !== null) { warn; return; }
AlreadyRunning(proc, st) == proc # NoProcess

\* start() giving up when the pre-flight exits non-zero.
StartBodyFatalPreflight(pre, outcome) ==
  /\ npreflight' = npreflight + 1
  /\ IF pre = 0
       THEN /\ nspawn' = nspawn + 1
            /\ child' = [child EXCEPT ![nspawn + 1] = outcome]
            /\ process' = nspawn + 1
            /\ status' = READY
            /\ last' = Did("start", pre, nspawn + 1, <<STARTING, READY>>,
                           <<"preflight", "spawn">>)
       ELSE /\ status' = ERROR
            /\ last' = Did("start", pre, NoProcess, <<STARTING, ERROR>>,
                           <<"preflight">>)
            /\ UNCHANGED <<nspawn, child, process>>

\* The body of start() past the guard: STARTING, the synchronous pre-flight
\* (whatever its exit code), spawn, READY.  spawn() returns a ChildProcess
\* in either outcome; when the process cannot be started the child's
\* 'error' event follows on the next tick.
StartBody(pre, outcome) ==
  LET p == nspawn + 1 IN
  /\ npreflight' = npreflight + 1
  /\ nspawn' = p
  /\ child' = [child EXCEPT ![p] = outcome]
  /\ process' = p
  /\ status' = READY
  /\ last' = Did("start", pre, p, <<STARTING, READY>>,
                 <<"preflight", "spawn">>)

Start ==
  /\ ~crashed
  /\ IF AlreadyRunning(process, status)
       THEN /\ last' = Did("start", 0, NoProcess, <<>>, <<>>)
            /\ UNCHANGED <<status, process, child, nspawn, npreflight>>
       ELSE /\ nspawn < MaxProcs
            /\ \E pre \in PreflightCodes, outcome \in {"running", "nospawn"} :
                 StartBody(pre, outcome)
  /\ UNCHANGED <<onExitCallbacks, sigints, calls, ninvoked, crashed>>
  /\ UNCHANGED testVars

(***************************************************************************)
(* The 'exit' listener                                                     *)
(***************************************************************************)
\* A test for failure codes only: a null code (signal) counts as success.
ExitStatusPositive(code) == IF code > 0 THEN ERROR ELSE IDLE

\* if (code === 0) IDLE else ERROR
ExitStatus(code) == IF code = 0 THEN IDLE ELSE ERROR

\* if (onExitCallback !== null) onExitCallback();
IsInvoked(cb) == cb # "null"

\* this._onExitCallbacks.map(...): the entries in order; calling an entry
\* that is not a function throws a TypeError, which ends the map.  Each
\* invocation is recorded with the status and handle the callback sees.
RECURSIVE RunCallbacks(_, _, _)
RunCallbacks(cbs, st, pr) ==
  IF cbs = <<>> THEN [calls |-> <<>>, threw |-> FALSE]
  ELSE IF ~IsInvoked(Head(cbs)) THEN RunCallbacks(Tail(cbs), st, pr)
  ELSE IF Head(cbs) \notin Functions THEN [calls |-> <<>>, threw |-> TRUE]
  ELSE LET rest == RunCallbacks(Tail(cbs), st, pr) IN
       [calls |-> <<[cb |-> Head(cbs), status |-> st, process |-> pr]>>
                    \o rest.calls,
        threw |-> rest.threw]

ExitHandler(p, code) ==
  LET run == RunCallbacks(onExitCallbacks, ExitStatus(code), NoProcess) IN
  /\ status' = ExitStatus(code)
  /\ process' = NoProcess
  /\ calls' = run.calls
  /\ ninvoked' = ninvoked + Len(run.calls)
  /\ crashed' = run.threw
  /\ last' = Did("exit", code, p, <<ExitStatus(code)>>, <<>>)

\* A live child exits with `code`; its 'exit' event is delivered.
ProcessExit ==
  /\ ~crashed
  /\ \E p \in ProcIds, code \in ExitCodes :
       /\ child[p] = "running"
       /\ child' = [child EXCEPT ![p] = "gone"]
       /\ ExitHandler(p, code)
  /\ UNCHANGED <<onExitCallbacks, nspawn, npreflight, sigints>>
  /\ UNCHANGED testVars

(***************************************************************************)
(* The 'error' listener                                                    *)
(***************************************************************************)
\* The listener leaving the handle in place.
ErrorHandlerKeepsHandle ==
  /\ status' = ERROR
  /\ process' = process

ErrorHandler ==
  /\ status' = ERROR
  /\ process' = NoProcess

\* The 'error' event of a child that could not be started.
SpawnError ==
  /\ ~crashed
  /\ \E p \in ProcIds :
       /\ child[p] = "nospawn"
       /\ child' = [child EXCEPT ![p] = "gone"]
       /\ ErrorHandler
       /\ last' = Did("error", 0, p, <<ERROR>>, <<>>)
  /\ UNCHANGED <<onExitCallbacks, nspawn, npreflight, sigints, calls,
                 ninvoked, crashed>>
  /\ UNCHANGED testVars

(***************************************************************************)
(* stop()                                                                  *)
(***************************************************************************)
\* this._process.kill('SIGINT') on a live child: the signal is delivered,
\* or the kill fails (EPERM) and ChildProcess.kill emits the child's 'error'
\* event synchronously, while the child keeps running.  On a child that was
\* never started kill() returns false and does nothing.
StopRunning ==
  /\ process # NoProcess
  /\ child[process] = "running"
  /\ \/ /\ sigints[process] < MaxSignals
        /\ sigints' = [sigints EXCEPT ![process] = @ + 1]
        /\ status' = CLOSING
        /\ process' = process
        /\ last' = Did("stop", 0, process, <<CLOSING>>, <<"kill">>)
     \/ /\ ErrorHandler
        /\ sigints' = sigints
        /\ last' = Did("stop", 0, process, <<CLOSING, ERROR>>,
                       <<"kill", "error">>)

StopUnstarted ==
  /\ process # NoProcess
  /\ child[process] # "running"
  /\ status' = CLOSING
  /\ last' = Did("stop", 0, process, <<CLOSING>>, <<"kill">>)
  /\ UNCHANGED <<process, sigints>>

\* stop() with the CLOSING assignment hoisted out of the if.
StopIdleClosing ==
  /\ process = NoProcess
  /\ status' = CLOSING
  /\ last' = Did("stop", 0, NoProcess, <<CLOSING>>, <<>>)
  /\ UNCHANGED <<process, sigints>>

\* else { logger.info('ElastAlert is not running'); }
StopIdle ==
  /\ process = NoProcess
  /\ last' = Did("stop", 0, NoProcess, <<>>, <<>>)
  /\ UNCHANGED <<status, process, sigints>>

Stop ==
  /\ ~crashed
  /\ (StopRunning \/ StopUnstarted \/ StopIdle)
  /\ UNCHANGED <<onExitCallbacks, child, nspawn, npreflight, calls, ninvoked,
                 crashed>>
  /\ UNCHANGED testVars

(***************************************************************************)
(* TestController: values.                                                 *)
(***************************************************************************)
\* The bytes a chunk is made of, and Buffer.toString() on them.
Bytes == {10, 79}
CharOf(b) == IF b = 10 THEN "\n" ELSE IF b = 79 THEN "O" ELSE "?"
toString(data) == [i \in 1..Len(data) |-> CharOf(data[i])]

RECURSIVE SeqsUpTo(_, _)
SeqsUpTo(S, n) ==
  IF n = 0 THEN {<<>>}
  ELSE LET shorter == SeqsUpTo(S, n - 1) IN
       shorter \cup {Append(q, x) : q \in shorter, x \in S}

\* 'data' events carry non-empty buffers.
Chunks == SeqsUpTo(Bytes, MaxChunkLen) \ {<<>>}

\* A string is the sequence of its characters.
Newline == <<"\n">>
EmptyString == <<>>

\* Values a promise settles with.
Undefined == [kind |-> "undefined", text |-> EmptyString]
Str(t) == [kind |-> "string", text |-> t]
WriteError == [kind |-> "writeError", text |-> EmptyString]
SpawnThrown == [kind |-> "spawnError", text |-> EmptyString]

Pending == [state |-> "pending", value |-> Undefined]

\* resolve(v) / reject(v): only the first settlement counts.
Resolve(p, v) ==
  IF p.state = "pending" THEN [state |-> "fulfilled", value |-> v] ELSE p
Reject(p, v) ==
  IF p.state = "pending" THEN [state |-> "rejected", value |-> v] ELSE p

\* The outer handler passing the rejection on (rethrowing the error).
OuterCatchRethrows(p) == p

\* new Promise(...).catch((error) => { logger.error(...) }): a rejection is
\* logged and the promise testRule returns is fulfilled with undefined.
OuterCatch(p) ==
  IF p.state = "rejected" THEN [state |-> "fulfilled", value |-> Undefined]
  ELSE p

\* Array.prototype.join(sep)
RECURSIVE Join(_, _)
Join(lines, sep) ==
  IF lines = <<>> THEN EmptyString
  ELSE IF Len(lines) = 1 THEN lines[1]
  ELSE lines[1] \o sep \o Join(Tail(lines), sep)

\* The options argument.  days and maxResults are a number or absent: the
\* set holding the number, or the empty set.
AllOptions ==
  [days : {{}, {0}, {7}},
   format : {"text", "json"},
   maxResults : {{}, {0}, {5}},
   alert : BOOLEAN,
   testType : {"full", "schemaOnly", "countOnly"}]

\* The options of the jobs that are followed to their end: the format
\* varies, nothing else is asked for.
JobOptions ==
  {o \in AllOptions : /\ o.days = {}
                      /\ o.maxResults = {}
                      /\ ~o.alert
                      /\ o.testType = "full"}

\* if (x) on a number or undefined
Truthy(x) == \E n \in x : n # 0

\* x > 0 on a number or undefined
Positive(x) == \E n \in x : n > 0

ValueOf(x) == CHOOSE n \in x : TRUE

\* The elements of processOptions: strings, and the numbers pushed as they
\* are.
Tok(str) == [isnum |-> FALSE, str |-> str, num |-> 0]
Num(n) == [isnum |-> TRUE, str |-> "", num |-> n]

\* path.join(dir, name)
PathJoin(dir, name) == dir \o "/" \o name

\* '~' + randomstring.generate() + '.temp' in the test folder
TempFilePath == PathJoin("/opt/elastalert/server_data/tests", "~r4nd0m.temp")

\* processOptions as built from options, the temporary path pushed last.
ProcessOptions(options, elastalertPath, tempFilePath) ==
  <<Tok("-m"), Tok("elastalert.test_rule"), Tok("--config"),
    Tok(PathJoin(elastalertPath, "config.yaml"))>>
  \o (IF Truthy(options.days)
        THEN <<Tok("--days"), Num(ValueOf(options.days))>> ELSE <<>>)
  \o (IF options.format = "json" THEN <<Tok("--formatted-output")>> ELSE <<>>)
  \o (IF Positive(options.maxResults)
        THEN <<Tok("--max-query-size"), Num(ValueOf(options.maxResults))>>
        ELSE <<>>)
  \o (IF options.alert THEN <<Tok("--alert")>> ELSE <<>>)
  \o (CASE options.testType = "schemaOnly" -> <<Tok("--schema-only")>>
        [] options.testType = "countOnly" -> <<Tok("--count-only")>>
        [] OTHER -> <<>>)
  \o <<Tok(tempFilePath)>>

\* The keys env is built with, and the configuration key of each.
ConnectionKeys == {"ES_HOST", "ES_PORT", "ES_USE_SSL", "ES_USERNAME",
                   "ES_PASSWORD"}
ConfigKeyOf(k) ==
  CASE k = "ES_HOST" -> "es_host"
    [] k = "ES_PORT" -> "es_port"
    [] k = "ES_USE_SSL" -> "use_ssl"
    [] k = "ES_USERNAME" -> "es_username"
    [] k = "ES_PASSWORD" -> "es_password"

\* const env = { ES_HOST: config.get('es_host'), ... };
\* for (const key in process.env) { env[key] = process.env[key] }
SpawnEnv(config, processEnv) ==
  [k \in ConnectionKeys \cup DOMAIN processEnv |->
     IF k \in DOMAIN processEnv THEN processEnv[k] ELSE config[ConfigKeyOf(k)]]

\* Configurations: the schema's defaults, or another host and credentials.
\* Values are written as strings; a key that is not configured reads as
\* undefined.
Configs ==
  [elastalertPath : {"/opt/elastalert"},
   es_host : {"elastalert", "es.internal"},
   es_port : {"9200"},
   use_ssl : {"false"},
   es_username : {"undefined", "elastic"},
   es_password : {"undefined", "secret"}]

DefaultConfig ==
  [elastalertPath |-> "/opt/elastalert", es_host |-> "elastalert",
   es_port |-> "9200", use_ssl |-> "false", es_username |-> "undefined",
   es_password |-> "undefined"]

\* Environments the server can be started in: each of these keys is set
\* or is not.
InheritedValue(k) ==
  CASE k = "ES_HOST" -> "inherited-host"
    [] k = "ES_PASSWORD" -> "inherited-password"
    [] k = "PATH" -> "/usr/bin"
ProcessEnvs ==
  {[k \in keys |-> InheritedValue(k)] :
     keys \in SUBSET {"ES_HOST", "ES_PASSWORD", "PATH"}}

DefaultProcessEnv == [k \in {"PATH"} |-> InheritedValue(k)]

NoArgs == <<>>
NoEnv == [k \in {} |-> ""]

TestNotCalled ==
  /\ tpc = "idle"
  /\ tOptions \in {o \in JobOptions : o.format = "text"}
  /\ tConfig = DefaultConfig
  /\ tProcessEnv = DefaultProcessEnv
  /\ tArgs = NoArgs
  /\ tEnv = NoEnv
  /\ tKills = 0
  /\ tSocket = "none"
  /\ tClose = FALSE
  /\ tChild = "none"
  /\ stdoutLines = <<>>
  /\ stderrLines = <<>>
  /\ tSent = <<>>
  /\ tInner = Pending
  /\ tReturned = Pending
  /\ tFile = FALSE
  /\ tDeletes = 0
  /\ tPending = 0
  /\ tArrived = <<>>
  /\ tLast = [op |-> "none", arg |-> 0]

(***************************************************************************)
(* testRule(rule, options, socket): the call itself starts writeFile and   *)
(* returns the promise.                                                    *)
(***************************************************************************)
TestInit ==
  /\ SupInit
  /\ tpc = "writing"
  /\ tOptions \in JobOptions
  /\ tConfig = DefaultConfig
  /\ tProcessEnv = DefaultProcessEnv
  /\ tArgs = NoArgs
  /\ tEnv = NoEnv
  /\ tKills = 0
  /\ tSocket \in {"none", "open"}
  /\ tClose = FALSE
  /\ tChild = "none"
  /\ stdoutLines = <<>>
  /\ stderrLines = <<>>
  /\ tSent = <<>>
  /\ tInner = Pending
  /\ tReturned = Pending
  /\ tFile = FALSE
  /\ tDeletes = 0
  /\ tPending = 0
  /\ tArrived = <<>>
  /\ tLast = [op |-> "testRule", arg |-> 0]

\* A listener that asks for the deletion twice.
DeleteFileTwice ==
  /\ tDeletes' = tDeletes + 2
  /\ tPending' = tPending + 2

\* A listener that forgets the deletion.
DeleteFileNever ==
  /\ tDeletes' = tDeletes
  /\ tPending' = tPending

\* fileSystem.deleteFile(tempFilePath).catch(log): the call is made now, the
\* unlink completes later.
DeleteFile ==
  /\ tDeletes' = tDeletes + 1
  /\ tPending' = tPending + 1

\* writeFile resolved: the .then callback.  spawn() returns the child and
\* the listeners are registered, or spawn() throws and the catch rejects.
WriteFileDone ==
  /\ tpc = "writing"
  /\ tFile' = TRUE
  /\ tArgs' = ProcessOptions(tOptions, tConfig.elastalertPath, TempFilePath)
  /\ tEnv' = SpawnEnv(tConfig, tProcessEnv)
  /\ \/ /\ tpc' = "running"
        /\ tChild' = "running"
        /\ tClose' = (tSocket # "none")
        /\ tLast' = [op |-> "spawn", arg |-> 0]
        /\ UNCHANGED <<tInner, tReturned>>
     \/ /\ tpc' = "spawnThrew"
        /\ tInner' = Reject(tInner, SpawnThrown)
        /\ tReturned' = OuterCatch(tInner')
        /\ tLast' = [op |-> "spawnThrew", arg |-> 0]
        /\ UNCHANGED <<tChild, tClose>>
  /\ UNCHANGED <<tOptions, tSocket, stdoutLines, stderrLines, tSent,
                 tDeletes, tPending, tArrived, jobInputs, tKills>>
  /\ UNCHANGED supVars

\* writeFile rejected: the .catch callback.
WriteFileFailed ==
  /\ tpc = "writing"
  /\ tpc' = "writeFailed"
  /\ tInner' = Reject(tInner, WriteError)
  /\ tReturned' = OuterCatch(tInner')
  /\ tLast' = [op |-> "writeFailed", arg |-> 0]
  /\ UNCHANGED <<tOptions, tSocket, tClose, tChild, stdoutLines, stderrLines,
                 tSent, tFile, tDeletes, tPending, tArrived, jobInputs,
                 spawnCall, tKills>>
  /\ UNCHANGED supVars

\* JSON.stringify of a string: quoted, a newline written as \n.
RECURSIVE Escape(_)
Escape(text) ==
  IF text = <<>> THEN <<>>
  ELSE (IF Head(text) = "\n" THEN <<"\\", "n">> ELSE <<Head(text)>>)
       \o Escape(Tail(text))

\* JSON.stringify({event: event, data: text}), as the sequence of its
\* parts: the opening with the event name, the characters of the escaped
\* data, the closing.
JSONStringify(event, text) ==
  <<"{\"event\":\"" \o event \o "\",\"data\":\"">> \o Escape(text) \o <<"\"}">>

\* socket.send(JSON.stringify({event, data})) when a socket was given.
Send(event, text) ==
  IF tSocket # "none"
    THEN Append(tSent, JSONStringify(event, text))
    ELSE tSent

\* stdout handler with the chunk put in front of the buffer.
StdoutPushFront(lines, text) == <<text>> \o lines

\* stdoutLines.push(data.toString())
StdoutPush(lines, text) == Append(lines, text)

\* testProcess.stdout.on('data', ...).  The child's pipes can still deliver
\* after its 'exit' event.
StdoutData ==
  /\ tChild \in {"running", "signalled", "exited"}
  /\ Len(tArrived) < MaxChunks
  /\ \E data \in Chunks :
       /\ tSent' = Send("result", toString(data))
       /\ stdoutLines' = StdoutPush(stdoutLines, toString(data))
       /\ tArrived' = Append(tArrived, [stream |-> "stdout", data |-> data])
       /\ tLast' = [op |-> "stdout", arg |-> 0]
  /\ UNCHANGED <<tpc, tOptions, tSocket, tClose, tChild, stderrLines, tInner,
                 tReturned, tFile, tDeletes, tPending, jobInputs, spawnCall,
                 tKills>>
  /\ UNCHANGED supVars

\* testProcess.stderr.on('data', ...)
StderrData ==
  /\ tChild \in {"running", "signalled", "exited"}
  /\ Len(tArrived) < MaxChunks
  /\ \E data \in Chunks :
       /\ tSent' = Send("progress", toString(data))
       /\ stderrLines' = Append(stderrLines, toString(data))
       /\ tArrived' = Append(tArrived, [stream |-> "stderr", data |-> data])
       /\ tLast' = [op |-> "stderr", arg |-> 0]
  /\ UNCHANGED <<tpc, tOptions, tSocket, tClose, tChild, stdoutLines, tInner,
                 tReturned, tFile, tDeletes, tPending, jobInputs, spawnCall,
                 tKills>>
  /\ UNCHANGED supVars

\* The socket closes.  The 'close' listener, when registered by then, kills
\* the test process (SIGTERM) and deletes the temporary file.
\* The listener without its kill() call.
KillNothing(c) == c

\* testProcess.kill(): SIGTERM to a running child, nothing to one that has
\* exited.
Kill(c) == IF c = "running" THEN "signalled" ELSE c

SocketClose ==
  /\ tSocket = "open"
  /\ tSocket' = "closed"
  /\ IF tClose
       THEN /\ tChild' = Kill(tChild)
            /\ tKills' = tKills + 1
            /\ DeleteFile
            /\ tLast' = [op |-> "close", arg |-> 0]
       ELSE /\ tLast' = [op |-> "closeUnheard", arg |-> 0]
            /\ UNCHANGED <<tChild, tDeletes, tPending, tKills>>
  /\ UNCHANGED <<tpc, tOptions, tClose, stdoutLines, stderrLines, tSent,
                 tInner, tReturned, tFile, tArrived, jobInputs, spawnCall>>
  /\ UNCHANGED supVars

\* The separator always a newline.
JoinSeparatorNewline(format) == Newline

\* format === 'json' ? join('') : join('\n')
JoinSeparator(format) == IF format = "json" THEN EmptyString ELSE Newline

\* An 'exit' listener that rejects on failure whether or not a socket was
\* given.
ExitSettlementRejectsAlways(p, statusCode, format, hasSocket, out, err) ==
  IF statusCode = 0
    THEN Resolve(p, Str(Join(out, EmptyString)))
    ELSE Reject(p, Str(Join(err, Newline)))

\* The settlement the 'exit' listener makes of the inner promise.
ExitSettlement(p, statusCode, format, hasSocket, out, err) ==
  IF statusCode = 0
    THEN Resolve(p, Str(Join(out, JoinSeparator(format))))
    ELSE IF ~hasSocket
           THEN Reject(p, Str(Join(err, Newline)))
           ELSE p

\* testProcess.on('exit', ...)
TestExit ==
  /\ tChild \in {"running", "signalled"}
  /\ tChild' = "exited"
  /\ \E statusCode \in ExitCodes :
       /\ tInner' = ExitSettlement(tInner, statusCode, tOptions.format,
                                   tSocket # "none", stdoutLines, stderrLines)
       /\ tLast' = [op |-> "exit", arg |-> statusCode]
  /\ tReturned' = OuterCatch(tInner')
  /\ DeleteFile
  /\ UNCHANGED <<tpc, tOptions, tSocket, tClose, stdoutLines, stderrLines,
                 tSent, tFile, tArrived, jobInputs, spawnCall, tKills>>
  /\ UNCHANGED supVars

\* A deleteFile() call completes: the file is removed, or the unlink fails
\* (the file is already gone, or the filesystem refuses) and the rejection
\* is logged by the .catch.
DeleteCompletes ==
  /\ tPending > 0
  /\ tPending' = tPending - 1
  /\ \/ tFile' = FALSE
     \/ tFile' = tFile
  /\ tLast' = [op |-> "deleted", arg |-> 0]
  /\ UNCHANGED <<tpc, tOptions, tSocket, tClose, tChild, stdoutLines,
                 stderrLines, tSent, tInner, tReturned, tDeletes, tArrived,
                 jobInputs, spawnCall, tKills>>
  /\ UNCHANGED supVars

(***************************************************************************)
(* The supervisor and its environment.                                     *)
(***************************************************************************)
Init == SupInit /\ TestNotCalled

Next ==
  \/ OnExit
  \/ Start
  \/ Stop
  \/ ProcessExit
  \/ SpawnError

Spec == Init /\ [][Next]_vars

(***************************************************************************)
(* One test job and its environment.                                       *)
(***************************************************************************)
TestNext ==
  \/ WriteFileDone
  \/ WriteFileFailed
  \/ StdoutData
  \/ StderrData
  \/ SocketClose
  \/ TestExit
  \/ DeleteCompletes

TestSpec == TestInit /\ [][TestNext]_vars

(***************************************************************************)
(* testRule up to its spawn() call, for every options argument,            *)
(* configuration and environment.                                          *)
(***************************************************************************)
SpawnInit ==
  /\ SupInit
  /\ tpc = "writing"
  /\ tOptions \in AllOptions
  /\ tConfig \in Configs
  /\ tProcessEnv \in ProcessEnvs
  /\ tArgs = NoArgs
  /\ tEnv = NoEnv
  /\ tKills = 0
  /\ tSocket = "none"
  /\ tClose = FALSE
  /\ tChild = "none"
  /\ stdoutLines = <<>>
  /\ stderrLines = <<>>
  /\ tSent = <<>>
  /\ tInner = Pending
  /\ tReturned = Pending
  /\ tFile = FALSE
  /\ tDeletes = 0
  /\ tPending = 0
  /\ tArrived = <<>>
  /\ tLast = [op |-> "testRule", arg |-> 0]

SpawnNext ==
  \/ WriteFileDone
  \/ WriteFileFailed

SpawnSpec == SpawnInit /\ [][SpawnNext]_vars

(***************************************************************************)
(* Properties of the supervisor.                                           *)
(***************************************************************************)
Live == {p \in ProcIds : child[p] = "running"}

CalledCbs == [i \in 1..Len(calls) |-> calls[i].cb]

IsFunction(cb) == cb \in Functions

IsPresent(cb) == cb \notin {"null", "undefined"}

\* C1: at most one engine process spawned by the supervisor is live at any
\* time, and a start() that finds a handle spawns nothing.
C1_AtMostOneLive ==
  /\ Cardinality(Live) <= 1
  /\ (last.op = "start" /\ last.process # NoProcess) => last.effects = <<>>

\* C2 as stated: start() in any state other than Idle is a no-op.
C2_NoOpUnlessIdle ==
  [][(Start /\ status # IDLE)
       => UNCHANGED <<status, process, onExitCallbacks, child, nspawn,
                      npreflight>>]_vars

\* C2 amended: start() while a handle is held (state Ready or Closing) is a
\* no-op: no pre-flight, no spawn, state, handle and callback list
\* unchanged; start() with no handle, from Error as from Idle, runs the
\* pre-flight and spawns.
C2_NoOpWhileHandle ==
  [][Start
       => IF process # NoProcess
            THEN /\ status \in {READY, CLOSING}
                 /\ UNCHANGED <<status, process, onExitCallbacks, child,
                                nspawn, npreflight>>
            ELSE /\ status \in {IDLE, ERROR}
                 /\ nspawn' = nspawn + 1
                 /\ npreflight' = npreflight + 1
                 /\ process' = nspawn'
                 /\ status' = READY]_vars

C2_Witness ==
  /\ last.op = "start"
  /\ last.status = CLOSING
  /\ last.process # NoProcess
  /\ status = CLOSING

\* C3: after every 'exit' event with code c the state is Idle if c is 0 and
\* Error otherwise (a null code included), and the handle is cleared,
\* whatever the state was before.
C3_ExitSettlesState ==
  last.op = "exit"
    => /\ process = NoProcess
       /\ (last.arg = 0 => status = IDLE)
       /\ (last.arg # 0 => status = ERROR)

C3_Witness ==
  /\ last.op = "exit"
  /\ last.arg = NullCode
  /\ last.status = CLOSING
  /\ last.process = last.proc
  /\ status = ERROR
  /\ process = NoProcess

\* C4: on every 'exit' event every registered callback is invoked exactly
\* once, in registration order, after the state was updated and the handle
\* cleared; a null or absent entry is skipped and the rest still run.
C4_CallbacksOncePerExit ==
  last.op = "exit"
    => /\ CalledCbs = SelectSeq(onExitCallbacks, IsPresent)
       /\ \A i \in 1..Len(calls) :
            /\ calls[i].status = status
            /\ calls[i].process = NoProcess
       /\ ~crashed

\* C5: stop() with no handle changes nothing, sends no signal and does not
\* throw, in state Idle as in state Error.
C5_StopWithoutHandle ==
  [][(Stop /\ process = NoProcess)
       => /\ UNCHANGED <<status, process, onExitCallbacks, child, sigints,
                         nspawn, calls, ninvoked, crashed>>
          /\ last'.effects = <<>>
          /\ last'.trace = <<>>]_vars

C5_Witness ==
  /\ last.op = "stop"
  /\ last.process = NoProcess
  /\ last.status = ERROR
  /\ status = ERROR

\* C6: stop() with a handle leaves the state Closing, the signal delivered
\* and the handle in place; Closing is then left only through the 'exit'
\* listener of that process.
C6_StopThenExitSettles ==
  /\ [][(Stop /\ process # NoProcess)
          => /\ status' = CLOSING
             /\ process' = process
             /\ last'.effects = <<"kill">>]_vars
  /\ [][(status = CLOSING /\ status' # CLOSING)
          => /\ last'.op = "exit"
             /\ last'.proc = process]_vars

\* C7: an 'error' event of the child sets the state Error and clears the
\* handle, and invokes no exit callback.
C7_ErrorEvent ==
  [][(last'.op = "error" \/ \E i \in 1..Len(last'.effects) :
                                last'.effects[i] = "error")
       => /\ status' = ERROR
          /\ process' = NoProcess
          /\ ninvoked' = ninvoked
          /\ calls' = calls]_vars

C7_Witness ==
  /\ last.op = "error"
  /\ last.process = last.proc
  /\ \E i \in 1..Len(onExitCallbacks) : IsFunction(onExitCallbacks[i])
  /\ status = ERROR
  /\ process = NoProcess
  /\ ninvoked = 0

\* C8: start() from Idle runs the pre-flight, then spawns exactly once
\* whatever the pre-flight's exit code, and returns in state Ready with the
\* handle set; Starting is never visible outside the call.
C8_StartFromIdle ==
  /\ [][(Start /\ status = IDLE)
          => /\ npreflight' = npreflight + 1
             /\ nspawn' = nspawn + 1
             /\ process' = nspawn'
             /\ child'[process'] \in {"running", "nospawn"}
             /\ \A p \in ProcIds \ {process'} : child'[p] = child[p]
             /\ status' = READY
             /\ last'.effects = <<"preflight", "spawn">>
             /\ last'.trace = <<STARTING, READY>>]_vars
  /\ [](status # STARTING)

C8_Witness ==
  /\ last.op = "start"
  /\ last.status = IDLE
  /\ last.arg = 1
  /\ status = READY
  /\ process = nspawn
  /\ npreflight = nspawn

(***************************************************************************)
(* Properties of a test job.                                               *)
(***************************************************************************)
\* The decoded chunks that arrived on a stream, in arrival order.
ArrivedOn(stream) ==
  LET these == SelectSeq(tArrived, LAMBDA a : a.stream = stream) IN
  [i \in 1..Len(these) |-> toString(these[i].data)]

RECURSIVE SumLen(_, _)
SumLen(lines, n) ==
  IF n = 0 THEN 0 ELSE SumLen(lines, n - 1) + Len(lines[n])

\* text is the chunks of lines in order with sep between neighbours: every
\* chunk sits at its offset, every gap holds sep, and nothing else is there.
JoinedAs(text, lines, sep) ==
  LET n == Len(lines)
      At(i) == SumLen(lines, i - 1) + (i - 1) * Len(sep)
  IN /\ Len(text) = SumLen(lines, n) + (IF n = 0 THEN 0 ELSE (n - 1) * Len(sep))
     /\ \A i \in 1..n :
          SubSeq(text, At(i) + 1, At(i) + Len(lines[i])) = lines[i]
     /\ \A i \in 1..(n - 1) :
          SubSeq(text, At(i) + Len(lines[i]) + 1, At(i + 1)) = sep

TestExitStep == tChild # "exited" /\ tChild' = "exited"

\* C9: when the test process exits with code 0 the returned promise is
\* fulfilled with the stdout chunks received so far in arrival order, with
\* nothing between them for format json and a newline between them
\* otherwise, with or without a socket.
C9_ResolvesWithStdout ==
  [][(TestExitStep /\ tLast'.arg = 0)
       => /\ tReturned'.state = "fulfilled"
          /\ tReturned'.value.kind = "string"
          /\ IF tOptions.format = "json"
               THEN JoinedAs(tReturned'.value.text, ArrivedOn("stdout"),
                             EmptyString)
               ELSE JoinedAs(tReturned'.value.text, ArrivedOn("stdout"),
                             Newline)
          /\ (Len(ArrivedOn("stdout")) = 1
                => tReturned'.value.text = ArrivedOn("stdout")[1])]_vars

C9_Witness ==
  /\ tLast = [op |-> "exit", arg |-> 0]
  /\ tOptions.format = "text"
  /\ tSocket = "open"
  /\ ArrivedOn("stdout") = << <<"O">>, <<"\n">> >>
  /\ tReturned = [state |-> "fulfilled", value |-> Str(<<"O", "\n", "\n">>)]

\* C10: without a socket, when the test process exits with a non-zero code
\* the returned promise is rejected with the stderr chunks joined by
\* newlines.
C10_RejectsWithStderr ==
  [][(TestExitStep /\ tLast'.arg # 0 /\ tSocket = "none")
       => /\ tReturned'.state = "rejected"
          /\ tReturned'.value.kind = "string"
          /\ JoinedAs(tReturned'.value.text, ArrivedOn("stderr"), Newline)]_vars

\* The steps that settle a call: the 'exit' listener, the catch of a failed
\* write, the catch of a spawn() that threw.
WriteFailedStep == tpc = "writing" /\ tpc' = "writeFailed"
SpawnThrewStep == tpc = "writing" /\ tpc' = "spawnThrew"

\* C11 as stated: the returned promise leaves pending only in the step of
\* the test process's exit.
C11_SettlesOnlyOnExit ==
  [][(tReturned.state = "pending" /\ tReturned'.state # "pending")
       => TestExitStep]_vars

\* C11: the returned promise changes only while pending and only in the
\* step of the test process's exit, of a failed write or of a spawn that
\* threw; an exit with a non-zero code of a job that was given a socket,
\* killed on close or not, leaves it pending; and after the exit no step
\* changes it, so it stays pending in every later state.
C11_SettlesOnlyOnTermination ==
  [][/\ (tReturned' # tReturned)
          => /\ tReturned.state = "pending"
             /\ TestExitStep \/ WriteFailedStep \/ SpawnThrewStep
     /\ (TestExitStep /\ tSocket # "none" /\ tLast'.arg # 0)
          => tReturned'.state = "pending"
     /\ (tChild = "exited") => (tReturned' = tReturned)]_vars

\* The socket closed, the child was killed and exited on the signal, both
\* deletions completed, and the promise is still pending.
C11_Witness ==
  /\ tChild = "exited"
  /\ tSocket = "closed"
  /\ tKills = 1
  /\ tDeletes = 2
  /\ tPending = 0
  /\ tLast.op = "deleted"
  /\ tReturned = Pending

\* The termination listeners that have run: 'exit' of the child, 'close' of
\* the socket (it starts with its kill() call).
ExitRan == IF tChild = "exited" THEN 1 ELSE 0
CloseRan == tKills

DeleteCompletesStep == tPending' < tPending

\* C12 as stated: once the termination events of a spawned job are over and
\* no deletion is in flight, the temporary file has been deleted.
C12_DeletedExactlyOnce ==
  (tpc = "running" /\ ExitRan + CloseRan > 0 /\ tPending = 0) => ~tFile

\* C12: in a spawned job each termination listener that runs asks for one
\* deletion of the temporary file (one for exit alone or close alone, two
\* for both, in either order); the file goes away at most once, in the
\* completion of one of these, and a later completion finds it gone; no
\* completion, failed or not, changes the promise, the child or the
\* buffers.
C12_DeletionPerTermination ==
  [][/\ (tpc' = "running") => (tDeletes' = ExitRan' + CloseRan')
     /\ (tKills' # tKills)
          => (tKills = 0 /\ tKills' = 1 /\ tSocket = "open" /\ tSocket' = "closed")
     /\ (tFile /\ ~tFile') => DeleteCompletesStep
     /\ (tpc = "running" /\ ~tFile) => ~tFile'
     /\ DeleteCompletesStep
          => /\ tPending' = tPending - 1
             /\ UNCHANGED <<tInner, tReturned, tChild, tpc, tSent,
                            stdoutLines, stderrLines>>]_vars

\* Close then exit: two deletions were asked for, the first removed the
\* file, the second found it gone, and the call's outcome stands.
C12_Witness ==
  /\ tpc = "running"
  /\ tSocket = "closed"
  /\ tChild = "exited"
  /\ tDeletes = 2
  /\ tPending = 0
  /\ ~tFile
  /\ tLast.op = "deleted"
  /\ tReturned.state = "fulfilled"

\* C13 as stated: once the returned promise has settled, or the close
\* listener has killed the child, the temporary file does not exist.
C13_GoneOnceSettled ==
  (tReturned.state # "pending" \/ tKills > 0) => ~tFile

\* C13: once the 'exit' listener or the close listener has run, a deletion
\* of the temporary file has been asked for; the file is gone only after a
\* deletion has completed; a call that settled because the write failed or
\* spawn threw has asked for none, and after a spawn that threw the file
\* is still there.
C13_DeletionRequestedOnceSettled ==
  /\ (tChild = "exited" \/ tKills > 0) => tDeletes > 0
  /\ (tpc = "running" /\ ~tFile) => tDeletes > tPending
  /\ (tpc \in {"writeFailed", "spawnThrew"}) => tDeletes = 0
  /\ (tpc = "spawnThrew") => (tFile /\ tReturned.state # "pending")

\* The job exited and settled, its one deletion completed and failed: the
\* file is still there.
C13_Witness ==
  /\ tpc = "running"
  /\ tChild = "exited"
  /\ tReturned.state = "fulfilled"
  /\ tDeletes = 1
  /\ tPending = 0
  /\ tLast.op = "deleted"
  /\ tFile

\* C14: when the socket given to a job closes before the test process
\* exits, the process is killed, and from then on no "result" or
\* "progress" message is sent on the socket, whatever chunks the process
\* still delivers.
C14_NoEventsAfterClose ==
  [][/\ (tSocket = "open" /\ tSocket' = "closed" /\ tChild = "running")
          => tChild' = "signalled"
     /\ (tSocket = "closed") => (tSent' = tSent)]_vars

\* C15: when the write of the temporary file fails no test process is
\* spawned and the returned promise is rejected with the error of the
\* write.
C15_WriteFailureRejects ==
  (tpc = "writeFailed")
    => /\ tChild = "none"
       /\ tArgs = NoArgs
       /\ tReturned = [state |-> "rejected", value |-> WriteError]

Spawned == tpc \in {"running", "spawnThrew"}

\* C16: the environment given to spawn() holds, for each of ES_HOST,
\* ES_PORT, ES_USE_SSL, ES_USERNAME and ES_PASSWORD, the configured value,
\* also when process.env defines the key, and every other key of
\* process.env with its value unchanged.
C16_ConfigWinsOverInherited ==
  Spawned
    => /\ DOMAIN tEnv = ConnectionKeys \cup DOMAIN tProcessEnv
       /\ \A k \in ConnectionKeys : tEnv[k] = tConfig[ConfigKeyOf(k)]
       /\ \A k \in (DOMAIN tProcessEnv) \ ConnectionKeys :
            tEnv[k] = tProcessEnv[k]

\* The translation of the options that C17 refers to: a flag for days
\* whenever days is present, whatever its value.
ReferenceArgs(o, installPath, ruleFile) ==
  <<Tok("-m"), Tok("elastalert.test_rule"), Tok("--config"),
    Tok(installPath \o "/config.yaml")>>
  \o (IF o.days # {} THEN <<Tok("--days"), Num(ValueOf(o.days))>> ELSE <<>>)
  \o (IF o.format = "json" THEN <<Tok("--formatted-output")>> ELSE <<>>)
  \o (IF o.maxResults # {} /\ ValueOf(o.maxResults) > 0
        THEN <<Tok("--max-query-size"), Num(ValueOf(o.maxResults))>>
        ELSE <<>>)
  \o (IF o.alert THEN <<Tok("--alert")>> ELSE <<>>)
  \o (IF o.testType = "schemaOnly" THEN <<Tok("--schema-only")>>
      ELSE IF o.testType = "countOnly" THEN <<Tok("--count-only")>>
      ELSE <<>>)
  \o <<Tok(ruleFile)>>

\* C17: for every options argument the arguments given to spawn() are the
\* reference translation: the config path always, the temporary file last,
\* --days with its value exactly when days is present (0 included),
\* --formatted-output exactly for format json, --max-query-size with its
\* value exactly when maxResults > 0, --alert exactly when alert is set,
\* --schema-only or --count-only exactly for those test types.
C17_ArgsMatchReference ==
  Spawned => tArgs = ReferenceArgs(tOptions, tConfig.elastalertPath, TempFilePath)

\* C18: a deletion of the temporary file is asked for only in a step in
\* which the test process's exit listener runs or the close listener has
\* sent its signal; none has been asked for while the process runs without
\* having been signalled.
C18_DeletionAfterTermination ==
  [][/\ (tDeletes' # tDeletes)
          => /\ tDeletes' = tDeletes + 1
             /\ \/ TestExitStep
                \/ tKills' = tKills + 1 /\ tChild' \in {"signalled", "exited"}
     /\ (tChild' \in {"none", "running"}) => (tDeletes' = 0)]_vars

\* The socket closed while the process ran: the signal was sent and the
\* deletion asked for, before any exit.
C18_Witness ==
  /\ tChild = "signalled"
  /\ tKills = 1
  /\ tDeletes = 1
  /\ tLast.op = "close"

\* C19: when spawn() throws, the returned promise is rejected with the
\* error thrown, no listener is registered and no deletion of the
\* temporary file is asked for.
C19_SpawnThrowRejects ==
  (tpc = "spawnThrew")
    => /\ tReturned = [state |-> "rejected", value |-> SpawnThrown]
       /\ ~tClose
       /\ tChild = "none"
       /\ tDeletes = 0
       /\ tFile

\* What a message on the socket says: its event and its data.
OpeningOf(event) ==
  IF event = "result" THEN "{\"event\":\"result\",\"data\":\""
  ELSE "{\"event\":\"progress\",\"data\":\""

RECURSIVE Unescape(_)
Unescape(t) ==
  IF t = <<>> THEN <<>>
  ELSE IF Len(t) >= 2 /\ t[1] = "\\" /\ t[2] = "n"
         THEN <<"\n">> \o Unescape(SubSeq(t, 3, Len(t)))
         ELSE <<Head(t)>> \o Unescape(Tail(t))

Says(msg, event, text) ==
  /\ Len(msg) >= 2
  /\ msg[1] = OpeningOf(event)
  /\ msg[Len(msg)] = "\"}"
  /\ Unescape(SubSeq(msg, 2, Len(msg) - 1)) = text

EventOf(stream) == IF stream = "stdout" THEN "result" ELSE "progress"

\* C20: the stdout buffer holds every stdout chunk and the stderr buffer
\* every stderr chunk, in arrival order, with or without a socket; with a
\* socket every chunk was sent as one message, "result" for stdout and
\* "progress" for stderr, carrying the chunk, the messages in the order of
\* arrival; without a socket nothing was sent.
C20_ChunksBufferedAndSent ==
  /\ stdoutLines = ArrivedOn("stdout")
  /\ stderrLines = ArrivedOn("stderr")
  /\ (tSocket = "none") => (tSent = <<>>)
  /\ (tSocket # "none")
       => /\ Len(tSent) = Len(tArrived)
          /\ \A i \in 1..Len(tArrived) :
               Says(tSent[i], EventOf(tArrived[i].stream),
                    toString(tArrived[i].data))

\* With an open socket a stderr newline arrived, then a stdout "O": two
\* messages went out in that order and each buffer holds its chunk.
C20_Witness ==
  /\ tSocket = "open"
  /\ tChild = "running"
  /\ tArrived = <<[stream |-> "stderr", data |-> <<10>>],
                  [stream |-> "stdout", data |-> <<79>>]>>
  /\ tSent = << <<OpeningOf("progress"), "\\", "n", "\"}">>,
                <<OpeningOf("result"), "O", "\"}">> >>
  /\ stdoutLines = << <<"O">> >>
  /\ stderrLines = << <<"\n">> >>


\* The 'exit' listener of child p runs in this step.
ExitStepOf(p) ==
  /\ child[p] = "running"
  /\ child'[p] = "gone"
  /\ last'.op = "exit"
  /\ last'.proc = p

\* C21: while an engine process spawned by start() has not exited, the
\* handle is not null and is that process; and the 'exit' listener of an
\* earlier process, run while the handle is a newer process, leaves the
\* handle and the status as they are.
C21_HandleTracksLiveProcess ==
  [][/\ \A p \in Live' : process' = p
     /\ \A p \in ProcIds :
          (ExitStepOf(p) /\ process # NoProcess /\ process # p)
            => (process' = process /\ status' = status)]_vars

====
